---- MODULE Spec2Model ----
(***************************************************************************)
(* Model of timetracker/parse_timetracker_file.py: the reading of the log  *)
(* files (parse_files), the grouping of parsed log lines by label          *)
(* (get_lines_by_label), the pairing of start lines with stop lines        *)
(* (find_timespans_by_label), the filters (filter_labels, filter_timespans,*)
(* filter_empty, filter_main) and the flags main passes to the grouping.   *)
(*                                                                         *)
(* A datetime is a natural number (minutes); a timedelta is an integer.    *)
(* A Python dict is a function whose DOMAIN is the set of its keys; where  *)
(* the iteration order of a dict matters it is kept beside it as the       *)
(* sequence of its keys in insertion order.                                *)
(***************************************************************************)
EXTENDS Integers, Sequences, FiniteSets, TLC

\* ------------------------------------------------------------------ bounds
MaxLines == 4
MaxTime == 1
MaxSpans == 2
MaxListed == 2
MaxOrdered == 3
MaxRawLines == 2

\* ------------------------------------------------------- input value sets
Times == 0..MaxTime
\* Labels as parse_files leaves them: title-cased (line 96).
Labels == {"A", "B"}
\* Action words as parse_files leaves them: lower-cased, any \w+ word (line 97).
Actions == {"start", "stop", "pause"}
\* What datetime.now() may return relative to the log: before or after it.
NowValues == {0, MaxTime + 1}

VARIABLES
    pc,                      \* position of the run
    lines,                   \* list of line dicts (parse_files' result)
    auto_stop_on_start,      \* keyword argument of get_lines_by_label
    discart_redundant_stops, \* keyword argument of get_lines_by_label
    idx,                     \* index into lines of get_lines_by_label's loop
    lines_by_label,          \* defaultdict(list): label -> list of entries
    label_order,             \* keys of lines_by_label in insertion order
    lab,                     \* find_timespans_by_label: index of the label being scanned
    i,                       \* find_timespans_by_label: index of the line being scanned
    next_stop,               \* local of find_timespans_by_label: <<>> while unbound, else <<line>>
    timespans_by_label,      \* defaultdict(list): label -> list of timespan entries
    log,                     \* the warnings given to logger.warning, in order
    clock,                   \* what datetime.now() returned last
    err,                     \* the exception that ended the run, "none" if none
    args,                    \* filter_timespans: the given criteria, criteria -> datetime
    filtered,                \* filter_timespans: its return value
    passed,                  \* filter_main: the mapping as it was when filter_main was called
    other,                   \* the lines of the run in another order, for a second grouping
    first,                   \* <<result>> of the first call once a second call began
    config,                  \* main: the flags process_args returns in args
    files,                   \* parse_files: the text lines of each file
    fpos,                    \* parse_files: <<index of the file, index of the line>> read next
    raised                   \* what the exception that ended the run carries

vars == <<pc, lines, auto_stop_on_start, discart_redundant_stops, idx,
          lines_by_label, label_order, lab, i, next_stop, timespans_by_label,
          log, clock, err, args, filtered, passed, other, first, config,
          files, fpos, raised>>

groupVars == <<idx, lines_by_label, label_order>>
findVars == <<lab, i, next_stop, timespans_by_label, log, clock>>
filterVars == <<args, filtered>>
extraVars == <<passed, other, first, config, files, fpos, raised>>

\* ------------------------------------------------------------- str order
\* Python orders str by code point; the rank of each word used here.
StrRank(s) ==
    CASE s = "A" -> 1
      [] s = "B" -> 2
      [] s = "f" -> 3
      [] s = "g" -> 4
      [] s = "pause" -> 5
      [] s = "start" -> 6
      [] s = "stop" -> 7

\* ------------------------------------------------------------- sort_key
\* sort_key without the datetime: lines stay in file order.
sort_key_without_datetime(line) ==
    <<StrRank(line.filename), line.lineno, StrRank(line.label), StrRank(line.action)>>

\* sort_key with the source before the datetime: lines stay file by file.
sort_key_by_source(line) ==
    <<StrRank(line.filename), line.lineno, line.datetime,
      StrRank(line.label), StrRank(line.action)>>

\* sort_key of the datetime alone: lines of one datetime stay in the order
\* they were given in.
sort_key_only_datetime(line) == <<line.datetime>>

sort_key(line) ==
    <<line.datetime, StrRank(line.filename), line.lineno,
      StrRank(line.label), StrRank(line.action)>>

\* Tuple comparison a < b, element by element from the left.
RECURSIVE TupleLess(_, _)
TupleLess(a, b) ==
    IF a = <<>> \/ b = <<>> THEN a = <<>> /\ b # <<>>
    ELSE IF Head(a) # Head(b) THEN Head(a) < Head(b)
    ELSE TupleLess(Tail(a), Tail(b))

\* Insert x into the sorted list s behind every element whose key is not
\* greater than x's: list.sort is stable.
RECURSIVE InsertSorted(_, _)
InsertSorted(s, x) ==
    IF s = <<>> THEN <<x>>
    ELSE IF TupleLess(sort_key(x), sort_key(Head(s))) THEN <<x>> \o s
    ELSE <<Head(s)>> \o InsertSorted(Tail(s), x)

RECURSIVE SortByKey(_)
SortByKey(s) ==
    IF s = <<>> THEN <<>>
    ELSE InsertSorted(SortByKey(SubSeq(s, 1, Len(s) - 1)), s[Len(s)])

\* ------------------------------------------------------------------ Init
\* The lines of one file "f" in the order parse_files reads them; the
\* datetimes are whatever the file holds, in any order.
LineDict(p, datetime, label, action) ==
    [datetime |-> datetime, filename |-> "f", lineno |-> p - 1,
     label |-> label, action |-> action]

EmptyDict == [k \in {} |-> <<>>]

\* The defaults of get_lines_by_label's keyword arguments (line 105).
DefaultFlags == [auto_stop_on_start |-> TRUE, discart_redundant_stops |-> FALSE]

\* The variables a run does not use.
InitExtra ==
    /\ passed = EmptyDict
    /\ other = <<>>
    /\ first = <<>>
    /\ config = DefaultFlags
    /\ files = <<>>
    /\ fpos = <<1, 1>>
    /\ raised = EmptyDict

Init ==
    /\ pc = "sort"
    /\ \E n \in 1..MaxLines :
          \E f \in [1..n -> Times \X Labels \X Actions] :
             lines = [p \in 1..n |-> LineDict(p, f[p][1], f[p][2], f[p][3])]
    /\ auto_stop_on_start \in BOOLEAN
    /\ discart_redundant_stops \in BOOLEAN
    /\ idx = 1
    /\ lines_by_label = EmptyDict
    /\ label_order = <<>>
    /\ lab = 1
    /\ i = 1
    /\ next_stop = <<>>
    /\ timespans_by_label = EmptyDict
    /\ log = <<>>
    /\ clock = 0
    /\ err = "none"
    /\ args = EmptyDict
    /\ filtered = EmptyDict
    /\ InitExtra

\* ------------------------------------------------- get_lines_by_label
\* lines.sort(key=sort_key)
SortLines ==
    /\ pc = "sort"
    /\ lines' = SortByKey(lines)
    /\ pc' = "group"
    /\ UNCHANGED <<auto_stop_on_start, discart_redundant_stops, groupVars,
                   findVars, err, filterVars, extraVars>>

\* d[k] of a defaultdict(list): the dict after the access.
Touch(d, k) == IF k \in DOMAIN d THEN d ELSE [x \in DOMAIN d \cup {k} |-> IF x = k THEN <<>> ELSE d[x]]
TouchOrder(d, order, k) == IF k \in DOMAIN d THEN order ELSE Append(order, k)

\* A dict compared with a str by == is never equal.
DictEqualsStr(d, s) == FALSE

\* The test of lines 132-133.
IsRedundantStop(linedict) ==
    /\ discart_redundant_stops
    /\ linedict.label = "stop"
    /\ LET entries == Touch(lines_by_label, linedict.label)[linedict.label]
       IN  entries = <<>> \/ DictEqualsStr(entries[Len(entries)], "stop")

\* The dict of line 143 made as a start entry.
startdict(other_label, linedict) ==
    [action |-> "start", label |-> other_label, datetime |-> linedict.datetime,
     synthetic |-> TRUE]

\* The dict of line 143 with a datetime one minute behind the line's.
stopdict_later(other_label, linedict) ==
    [action |-> "stop", label |-> other_label, datetime |-> linedict.datetime + 1,
     synthetic |-> TRUE]

\* The dict made at line 143; it has no tags and no comment key, which the
\* field synthetic records.
stopdict(other_label, linedict) ==
    [action |-> "stop", label |-> other_label, datetime |-> linedict.datetime,
     synthetic |-> TRUE]

\* Whether the loop of lines 140-145 appends a stop entry to this list.
ClosesEntries(labelentries) == labelentries[Len(labelentries)].action = "start"

\* The loop of lines 140-145 when it passes over the incoming line's label.
AutoStoppedOthers(d, linedict) ==
    [k \in DOMAIN d |->
        IF k # linedict.label /\ ClosesEntries(d[k])
        THEN Append(d[k], stopdict(k, linedict)) ELSE d[k]]

\* The loop of lines 140-145 over every item of lines_by_label.
AutoStopped(d, linedict) ==
    [k \in DOMAIN d |->
        IF ClosesEntries(d[k]) THEN Append(d[k], stopdict(k, linedict)) ELSE d[k]]

\* linedict after lines 146-147.
Popped(linedict) ==
    [action |-> linedict.action, label |-> linedict.label,
     datetime |-> linedict.datetime, synthetic |-> FALSE]

\* One turn of the loop of line 129, and the return when it was the last.
GroupStep ==
    /\ pc = "group"
    /\ idx <= Len(lines)
    /\ LET linedict == lines[idx]
           label == linedict.label
           after == IF idx = Len(lines) THEN "find" ELSE "group"
           \* line 133 evaluates lines_by_label[label] when the tests before it hold
           looked == discart_redundant_stops /\ linedict.label = "stop"
           d0 == IF looked THEN Touch(lines_by_label, label) ELSE lines_by_label
           o0 == IF looked THEN TouchOrder(lines_by_label, label_order, label)
                 ELSE label_order
           closing == auto_stop_on_start /\ linedict.action = "start"
       IN  IF IsRedundantStop(linedict)
           THEN \* continue
                /\ lines_by_label' = d0
                /\ label_order' = o0
                /\ pc' = after
                /\ UNCHANGED <<lines, err>>
           ELSE IF closing /\ \E k \in DOMAIN d0 : d0[k] = <<>>
           THEN \* labelentries[-1] of an empty list raises IndexError; the
                \* items before it in the dict's order have been closed
                LET e == CHOOSE n \in 1..Len(o0) :
                            d0[o0[n]] = <<>> /\ \A m \in 1..(n - 1) : d0[o0[m]] # <<>>
                    before == {o0[m] : m \in 1..(e - 1)}
                    closed == AutoStopped([k \in before |-> d0[k]], linedict)
                IN  /\ err' = "IndexError"
                    /\ pc' = "error"
                    /\ lines_by_label' = [k \in DOMAIN d0 |->
                                             IF k \in before THEN closed[k] ELSE d0[k]]
                    /\ label_order' = o0
                    /\ UNCHANGED lines
           ELSE LET d1 == IF closing THEN AutoStopped(d0, linedict) ELSE d0
                    d2 == Touch(d1, label)
                IN  /\ lines_by_label' = [d2 EXCEPT ![label] = Append(@, Popped(linedict))]
                    /\ label_order' = TouchOrder(d1, o0, label)
                    /\ lines' = [lines EXCEPT ![idx] = Popped(linedict)]
                    /\ pc' = after
                    /\ UNCHANGED err
    /\ idx' = idx + 1
    /\ UNCHANGED <<auto_stop_on_start, discart_redundant_stops, findVars, filterVars,
                   extraVars>>

\* --------------------------------------------- find_timespans_by_label
\* The search that returns the last such line instead of the first.
LastWithAction(ls, n, action) ==
    LET found == {j \in (n + 1)..Len(ls) : ls[j].action = action}
    IN  IF found = {} THEN 0 ELSE CHOOSE j \in found : \A m \in found : m <= j

\* Index of the first line behind position n whose action is the given one,
\* 0 when there is none: next(line for line in lines[i+1:] if ...).
RECURSIVE NextWithAction(_, _, _)
NextWithAction(ls, n, action) ==
    IF n >= Len(ls) THEN 0
    ELSE IF ls[n + 1].action = action THEN n + 1
    ELSE NextWithAction(ls, n + 1, action)

\* The test of line 176 with >= for >.
OverlapsOrMeets(stop_line, start_line) == stop_line.datetime >= start_line.datetime

\* The test of line 176, next_start being a line and next_stop bound.
Overlaps(stop_line, start_line) == stop_line.datetime > start_line.datetime

\* The entry of lines 166-180.
TimespanEntry(label, start, stop) ==
    [label |-> label, start |-> start, stop |-> stop, timespan |-> stop - start]

\* timespans_by_label[label].append(entry)
AppendEntry(d, label, entry) ==
    [Touch(d, label) EXCEPT ![label] = Append(@, entry)]

\* The position behind (lab, i) and where the run is then.
Advance(ls) ==
    IF i < Len(ls)
    THEN /\ i' = i + 1
         /\ lab' = lab
         /\ pc' = "find"
    ELSE /\ i' = 1
         /\ lab' = lab + 1
         /\ pc' = IF lab + 1 > Len(label_order) THEN "done" ELSE "find"

\* One turn of the inner loop of line 161 (and of the outer loop of line 160
\* when the label's lines are used up), and the return behind the last.
FindStep ==
    /\ pc = "find"
    /\ IF lab > Len(label_order)
       THEN /\ pc' = "done"
            /\ UNCHANGED <<findVars, err>>
       ELSE LET label == label_order[lab]
                ls == lines_by_label[label]
            IN  IF i > Len(ls) \/ ls[i].action # "start"
                THEN /\ Advance(ls)
                     /\ UNCHANGED <<next_stop, timespans_by_label, log, clock, err>>
                ELSE LET line == ls[i]
                         s == NextWithAction(ls, i, "stop")
                         n == NextWithAction(ls, i, "start")
                     IN  \E now \in {t \in NowValues : t >= clock} :
                         LET bound == IF s # 0 THEN <<ls[s]>> ELSE next_stop
                             entry == TimespanEntry(label, line.datetime,
                                         IF s # 0 THEN ls[s].datetime ELSE now)
                             log1 == IF s # 0 THEN log
                                     ELSE Append(log, [kind |-> "nostop", label |-> label,
                                                       start |-> line.datetime, pos |-> i])
                         IN  /\ next_stop' = bound
                             /\ clock' = IF s # 0 THEN clock ELSE now
                             /\ IF n # 0 /\ bound = <<>>
                                THEN \* next_stop is read before it was ever assigned
                                     /\ err' = "UnboundLocalError"
                                     /\ pc' = "error"
                                     /\ log' = log1
                                     /\ UNCHANGED <<lab, i, timespans_by_label>>
                                ELSE /\ log' = IF n # 0 /\ Overlaps(bound[1], ls[n])
                                               THEN Append(log1, [kind |-> "overlap", label |-> label,
                                                                  start |-> line.datetime, pos |-> i,
                                                                  stop |-> bound[1].datetime,
                                                                  next_start |-> ls[n].datetime])
                                               ELSE log1
                                     /\ timespans_by_label' = AppendEntry(timespans_by_label, label, entry)
                                     /\ Advance(ls)
                                     /\ UNCHANGED err
    /\ UNCHANGED <<lines, auto_stop_on_start, discart_redundant_stops, groupVars, filterVars,
                   extraVars>>

\* ------------------------- find_timespans_by_label on one timeline alone
\* What find_timespans_by_label did for a label: the timespans it appended,
\* by their starts, the warnings it gave for the label, and whether it
\* raised while it was at the label.
OutcomeFor(label) ==
    [starts |-> IF label \in DOMAIN timespans_by_label
                THEN [k \in 1..Len(timespans_by_label[label]) |->
                         timespans_by_label[label][k].start]
                ELSE <<>>,
     warnings |-> SelectSeq(log, LAMBDA w : w.label = label),
     raised |-> IF pc = "error" /\ label_order[lab] = label THEN err ELSE "none"]

\* find_timespans_by_label has returned or raised; it is called once more
\* on the timeline of one label alone, a label it had come to.
FindAlone ==
    /\ pc \in {"done", "error"}
    /\ err \in {"none", "UnboundLocalError"}
    /\ first = <<>>
    /\ \E n \in 1..Len(label_order) :
          /\ pc = "error" => n <= lab
          /\ first' = <<OutcomeFor(label_order[n])>>
          /\ lines_by_label' = [l \in {label_order[n]} |-> lines_by_label[l]]
          /\ label_order' = <<label_order[n]>>
    /\ lab' = 1
    /\ i' = 1
    /\ next_stop' = <<>>
    /\ timespans_by_label' = EmptyDict
    /\ log' = <<>>
    /\ clock' = 0
    /\ err' = "none"
    /\ pc' = "find"
    /\ UNCHANGED <<lines, auto_stop_on_start, discart_redundant_stops, idx, filterVars,
                   passed, other, config, files, fpos, raised>>

NextAlone == SortLines \/ GroupStep \/ FindStep \/ FindAlone

SpecAlone == Init /\ [][NextAlone]_vars

\* ----------------------------------------------------- filter_timespans
time_criteria == <<"start_before", "start_after", "end_before", "end_after">>

\* criteria.split("_")
crit_key(criteria) ==
    CASE criteria \in {"start_before", "start_after"} -> "start"
      [] criteria \in {"end_before", "end_after"} -> "end"
side(criteria) ==
    CASE criteria \in {"start_after", "end_after"} -> "after"
      [] criteria \in {"start_before", "end_before"} -> "before"

\* The lambdas of lines 197 and 199 with strict comparisons.
time_ok_strict(timespan, a, criteria) ==
    IF side(criteria) = "after"
    THEN timespan[crit_key(criteria)] > a[criteria]
    ELSE timespan[crit_key(criteria)] < a[criteria]

\* The lambdas of lines 197 and 199, applied to a timespan that has the key.
time_ok(timespan, a, criteria) ==
    IF side(criteria) = "after"
    THEN timespan[crit_key(criteria)] >= a[criteria]
    ELSE timespan[crit_key(criteria)] <= a[criteria]

\* The comprehension of lines 202-203: time_ok is called on every timespan
\* of every label, and timespan[crit_key] raises KeyError without the key.
FilterOn(d, a, criteria) ==
    IF \E label \in DOMAIN d : \E k \in 1..Len(d[label]) :
          crit_key(criteria) \notin DOMAIN d[label][k]
    THEN [err |-> "KeyError", value |-> d]
    ELSE [err |-> "none",
          value |-> [label \in DOMAIN d |->
                       SelectSeq(d[label], LAMBDA t : time_ok(t, a, criteria))]]

\* The loop of lines 191-203 from the n-th criteria on.
RECURSIVE FilterFrom(_, _, _)
FilterFrom(d, a, n) ==
    IF n > Len(time_criteria) THEN [err |-> "none", value |-> d]
    ELSE IF time_criteria[n] \notin DOMAIN a THEN FilterFrom(d, a, n + 1)
    ELSE LET r == FilterOn(d, a, time_criteria[n])
         IN  IF r.err # "none" THEN r ELSE FilterFrom(r.value, a, n + 1)

\* filter_timespans(timespans_by_label, args): the exception it raises, if
\* any, and else its return value.
filter_timespans(d, a) ==
    IF \A n \in 1..Len(time_criteria) : time_criteria[n] \notin DOMAIN a
    THEN [err |-> "none", value |-> d]
    ELSE FilterFrom(d, a, 1)

FilterTimespans ==
    /\ pc = "filter"
    /\ LET r == filter_timespans(timespans_by_label, args)
       IN  /\ err' = r.err
           /\ filtered' = IF r.err = "none" THEN r.value ELSE filtered
           /\ pc' = IF r.err = "none" THEN "done" ELSE "error"
    /\ UNCHANGED <<lines, auto_stop_on_start, discart_redundant_stops, groupVars,
                   findVars, args, extraVars>>

\* The labels of the entries of a list, and the entries of one label.
LabelsOf(es) == {es[k].label : k \in 1..Len(es)}
EntriesOf(es, label) == SelectSeq(es, LAMBDA e : e.label = label)

\* Whether the starts of a list of timespans never decrease, as in every
\* list find_timespans_by_label builds from sorted lines.
StartsAscend(ts) == \A k \in 1..(Len(ts) - 1) : ts[k].start <= ts[k + 1].start

\* A timespan mapping as find_timespans_by_label returns it, of at most
\* MaxSpans timespans, and any choice of the four time criteria.
InitFilter ==
    /\ pc = "filter"
    /\ lines = <<>>
    /\ auto_stop_on_start = TRUE
    /\ discart_redundant_stops = FALSE
    /\ idx = 1
    /\ lines_by_label = EmptyDict
    /\ label_order = <<>>
    /\ lab = 1
    /\ i = 1
    /\ next_stop = <<>>
    /\ \E n \in 0..MaxSpans :
          \E f \in [1..n -> Labels \X Times \X (Times \cup NowValues)] :
             LET es == [k \in 1..n |-> TimespanEntry(f[k][1], f[k][2], f[k][3])]
             IN  /\ \A label \in LabelsOf(es) : StartsAscend(EntriesOf(es, label))
                 /\ timespans_by_label = [label \in LabelsOf(es) |-> EntriesOf(es, label)]
    /\ log = <<>>
    /\ clock = 0
    /\ err = "none"
    /\ \E given \in SUBSET {time_criteria[n] : n \in 1..Len(time_criteria)} :
          args \in [given -> Times]
    /\ filtered = EmptyDict
    /\ InitExtra

NextFilter == FilterTimespans

SpecFilter == InitFilter /\ [][NextFilter]_vars

Next == SortLines \/ GroupStep \/ FindStep

Spec == Init /\ [][Next]_vars

\* ------------------------------------------- the order lines are given in
\* The k-th line of a collection read from two files "f" and "g": the
\* filename and lineno parse_files gives it (lines 99-100). No two lines of
\* a collection have the same.
Source(k) == [filename |-> IF k % 2 = 1 THEN "f" ELSE "g", lineno |-> (k - 1) \div 2]

SourcedLine(k, datetime, label, action) ==
    [datetime |-> datetime, filename |-> Source(k).filename, lineno |-> Source(k).lineno,
     label |-> label, action |-> action]

\* The orders n lines can be given in.
Orders(n) == {p \in [1..n -> 1..n] : \A j, k \in 1..n : p[j] = p[k] => j = k}

\* lines.sort(key=sort_key) on a list that line 127 has sorted.
SortAgain ==
    /\ pc = "group"
    /\ idx = 1
    /\ lines' = SortByKey(lines)
    /\ pc' = "resorted"
    /\ UNCHANGED <<auto_stop_on_start, discart_redundant_stops, groupVars,
                   findVars, err, filterVars, extraVars>>

\* get_lines_by_label has returned; it is called with the same flags on the
\* same lines in the other order.
Rerun ==
    /\ pc = "find"
    /\ first = <<>>
    /\ first' = <<lines_by_label>>
    /\ lines' = other
    /\ idx' = 1
    /\ lines_by_label' = EmptyDict
    /\ label_order' = <<>>
    /\ pc' = "sort"
    /\ UNCHANGED <<auto_stop_on_start, discart_redundant_stops, findVars, err, filterVars,
                   passed, other, config, files, fpos, raised>>

\* At most MaxOrdered lines from two files, in the order of their sources
\* and in any other order; two orders that group as the first does group as
\* each other.
InitOrder ==
    /\ pc = "sort"
    /\ \E n \in 1..MaxOrdered :
          \E f \in [1..n -> Times \X Labels \X Actions] :
             \E p \in Orders(n) :
                /\ lines = [k \in 1..n |-> SourcedLine(k, f[k][1], f[k][2], f[k][3])]
                /\ other = [k \in 1..n |-> lines[p[k]]]
    /\ auto_stop_on_start \in BOOLEAN
    /\ discart_redundant_stops \in BOOLEAN
    /\ idx = 1
    /\ lines_by_label = EmptyDict
    /\ label_order = <<>>
    /\ lab = 1
    /\ i = 1
    /\ next_stop = <<>>
    /\ timespans_by_label = EmptyDict
    /\ log = <<>>
    /\ clock = 0
    /\ err = "none"
    /\ args = EmptyDict
    /\ filtered = EmptyDict
    /\ passed = EmptyDict
    /\ first = <<>>
    /\ config = DefaultFlags
    /\ files = <<>>
    /\ fpos = <<1, 1>>
    /\ raised = EmptyDict

NextOrder == SortLines \/ GroupStep \/ SortAgain \/ Rerun

SpecOrder == InitOrder /\ [][NextOrder]_vars

\* ------------------------------------------------------------------ main
\* The flags get_lines_by_label gets from main: line 435 passes lines alone,
\* so they are the defaults whatever args holds.
PassedFlags(configured) == DefaultFlags

\* main from line 434 on to the return of find_timespans_by_label: the lines
\* of one file as in Init, any flags in args.
InitRun ==
    /\ pc = "sort"
    /\ \E n \in 1..MaxLines :
          \E f \in [1..n -> Times \X Labels \X Actions] :
             lines = [p \in 1..n |-> LineDict(p, f[p][1], f[p][2], f[p][3])]
    /\ config \in [auto_stop_on_start : BOOLEAN, discart_redundant_stops : BOOLEAN]
    /\ auto_stop_on_start = PassedFlags(config).auto_stop_on_start
    /\ discart_redundant_stops = PassedFlags(config).discart_redundant_stops
    /\ idx = 1
    /\ lines_by_label = EmptyDict
    /\ label_order = <<>>
    /\ lab = 1
    /\ i = 1
    /\ next_stop = <<>>
    /\ timespans_by_label = EmptyDict
    /\ log = <<>>
    /\ clock = 0
    /\ err = "none"
    /\ args = EmptyDict
    /\ filtered = EmptyDict
    /\ passed = EmptyDict
    /\ other = <<>>
    /\ first = <<>>
    /\ files = <<>>
    /\ fpos = <<1, 1>>
    /\ raised = EmptyDict

NextRun == SortLines \/ GroupStep \/ FindStep

SpecRun == InitRun /\ [][NextRun]_vars

\* -------------------------------------------------------- filter_labels
\* Labels as the user writes them in --labels and --exclude-labels.
UserLabels == {"a", "B"}

\* A title() that gives the other label each time.
title_toggling(label) ==
    CASE label \in {"a", "A"} -> "B"
      [] label \in {"b", "B"} -> "A"

\* str.title() of a one-letter word.
title(label) ==
    CASE label \in {"a", "A"} -> "A"
      [] label \in {"b", "B"} -> "B"

\* x in list.
InList(x, list) == \E n \in 1..Len(list) : list[n] = x

\* A dict without the keys outside keep: every pop of a loop done.
Restrict(d, keep) == [k \in DOMAIN d \cap keep |-> d[k]]

\* [label.title() for label in list]
Titled(list) == [n \in 1..Len(list) |-> title(list[n])]

\* Lines 210-216 with the test of line 210 always false.
IncludeAllLabels(d, a) == [value |-> d, args |-> a]

\* Lines 210-216: the allow-list. An empty list stands for None as well;
\* either is false in the test of line 210.
IncludeLabels(d, a) ==
    IF a["labels"] = <<>> THEN [value |-> d, args |-> a]
    ELSE LET a1 == [a EXCEPT !["labels"] = Titled(a["labels"])]
         IN  [value |-> Restrict(d, {k \in DOMAIN d : InList(k, a1["labels"])}),
              args |-> a1]

\* Lines 217-223 with the test of line 221 negated.
ExcludeOtherLabels(d, a) ==
    IF a["exclude_labels"] = <<>> THEN [value |-> d, args |-> a]
    ELSE LET a1 == [a EXCEPT !["exclude_labels"] = Titled(a["exclude_labels"])]
         IN  [value |-> Restrict(d, {k \in DOMAIN d : InList(k, a1["exclude_labels"])}),
              args |-> a1]

\* Lines 217-223: the deny-list.
ExcludeLabels(d, a) ==
    IF a["exclude_labels"] = <<>> THEN [value |-> d, args |-> a]
    ELSE LET a1 == [a EXCEPT !["exclude_labels"] = Titled(a["exclude_labels"])]
         IN  [value |-> Restrict(d, {k \in DOMAIN d : ~InList(k, a1["exclude_labels"])}),
              args |-> a1]

\* filter_labels(timespans_by_label, args): the dict it was given as the
\* call leaves it, which is also what it returns (line 224), and args as
\* the call leaves it.
filter_labels(d, a) ==
    LET r == IncludeLabels(d, a)
    IN  ExcludeLabels(r.value, r.args)

\* filter_empty that pops nothing.
filter_empty_keeping(d) == d

\* filter_empty(timespans_by_label): the dict it was given as the call
\* leaves it, which is also what it returns.
filter_empty(d) == Restrict(d, {k \in DOMAIN d : d[k] # <<>>})

\* ---------------------------------------------------------- filter_main
\* Whether filter_timespans returns the dict it was given (line 188).
SameObject(a) == \A n \in 1..Len(time_criteria) : time_criteria[n] \notin DOMAIN a

\* Line 237: the return value is dropped, the dict is changed in place.
MainFilterLabels ==
    /\ pc = "filter_labels"
    /\ LET r == filter_labels(timespans_by_label, args)
       IN  /\ timespans_by_label' = r.value
           /\ args' = r.args
    /\ pc' = "filter_timespans"
    /\ UNCHANGED <<lines, auto_stop_on_start, discart_redundant_stops, groupVars,
                   lab, i, next_stop, log, clock, err, filtered, extraVars>>

\* Line 238, and the test of line 239.
MainFilterTimespans ==
    /\ pc = "filter_timespans"
    /\ LET r == filter_timespans(timespans_by_label, args)
       IN  /\ err' = r.err
           /\ filtered' = IF r.err = "none" THEN r.value ELSE filtered
           /\ pc' = IF r.err # "none" THEN "error"
                    ELSE IF args["discart_empty_labels"] THEN "filter_empty"
                    ELSE "returned"
    /\ UNCHANGED <<lines, auto_stop_on_start, discart_redundant_stops, groupVars,
                   findVars, args, extraVars>>

\* Line 240: filter_empty changes the dict filter_timespans returned, which
\* is the caller's dict when no time criteria was given.
MainFilterEmpty ==
    /\ pc = "filter_empty"
    /\ filtered' = filter_empty(filtered)
    /\ timespans_by_label' = IF SameObject(args) THEN filter_empty(timespans_by_label)
                             ELSE timespans_by_label
    /\ pc' = "returned"
    /\ UNCHANGED <<lines, auto_stop_on_start, discart_redundant_stops, groupVars,
                   lab, i, next_stop, log, clock, err, args, extraVars>>

\* filter_labels called once more on its own result with the args the first
\* call left.
FilterLabelsAgain ==
    /\ pc = "filter_timespans"
    /\ LET r == filter_labels(timespans_by_label, args)
       IN  /\ timespans_by_label' = r.value
           /\ args' = r.args
    /\ pc' = "relabelled"
    /\ UNCHANGED <<lines, auto_stop_on_start, discart_redundant_stops, groupVars,
                   lab, i, next_stop, log, clock, err, filtered, extraVars>>

\* The lists of at most MaxListed user labels.
LabelLists == UNION {[1..n -> UserLabels] : n \in 0..MaxListed}

\* A timespan mapping as find_timespans_by_label returns it, of at most
\* MaxSpans timespans, with args as process_args returns it: the two label
\* lists, the time criteria given, and the flag of the empty labels.
InitFilterMain ==
    /\ pc = "filter_labels"
    /\ lines = <<>>
    /\ auto_stop_on_start = TRUE
    /\ discart_redundant_stops = FALSE
    /\ idx = 1
    /\ lines_by_label = EmptyDict
    /\ label_order = <<>>
    /\ lab = 1
    /\ i = 1
    /\ next_stop = <<>>
    /\ \E n \in 0..MaxSpans :
          \E f \in [1..n -> Labels \X Times] :
             LET es == [k \in 1..n |-> TimespanEntry(f[k][1], f[k][2], f[k][2] + 1)]
             IN  /\ \A label \in LabelsOf(es) : StartsAscend(EntriesOf(es, label))
                 /\ timespans_by_label = [label \in LabelsOf(es) |-> EntriesOf(es, label)]
                 /\ passed = timespans_by_label
    /\ log = <<>>
    /\ clock = 0
    /\ err = "none"
    /\ \E given \in SUBSET {"start_after", "end_before"} :
          \E t \in [given -> Times] :
             \E labels \in LabelLists, exclude_labels \in LabelLists :
                \E discart_empty_labels \in BOOLEAN :
                   args = t @@ [labels |-> labels, exclude_labels |-> exclude_labels,
                                discart_empty_labels |-> discart_empty_labels]
    /\ filtered = EmptyDict
    /\ other = <<>>
    /\ first = <<>>
    /\ config = DefaultFlags
    /\ files = <<>>
    /\ fpos = <<1, 1>>
    /\ raised = EmptyDict

NextFilterMain ==
    MainFilterLabels \/ MainFilterTimespans \/ MainFilterEmpty \/ FilterLabelsAgain

SpecFilterMain == InitFilterMain /\ [][NextFilterMain]_vars
\* ------------------------------------------------------------ parse_files
\* The files read, in the order of filenames.
FileNames == <<"f", "g">>

\* Texts that the datetime group of line_pat (line 76) matches.
TimeTexts == {"2015-06-08 09.00", "2015-06-08 09.01", "2015-06-08 18:52"}

\* datetime.strptime(text, "%Y-%m-%d %H.%M"): whether it parses and the
\* datetime then, in minutes after 09.00.
strptime(text) ==
    CASE text = "2015-06-08 09.00" -> [ok |-> TRUE, value |-> 0]
      [] text = "2015-06-08 09.01" -> [ok |-> TRUE, value |-> 1]
      [] text = "2015-06-08 18:52" -> [ok |-> FALSE, value |-> 0]

\* str.lower() of the action words written.
lower(action) ==
    CASE action \in {"Start", "start"} -> "start"
      [] action \in {"Stop", "stop"} -> "stop"

\* A line of a file: one that line_pat does not match, or one it matches
\* with the groups it gives.
NoMatch == [matches |-> FALSE]
RawLines ==
    {NoMatch} \cup
    [matches : {TRUE}, datetime : TimeTexts, action : {"Start"}, label : UserLabels]

\* Lines 95-100: the dict appended for a matched line whose datetime parses;
\* tags and comment are omitted.
ParsedLine(raw, filename, lineno) ==
    [datetime |-> strptime(raw.datetime).value, filename |-> filename, lineno |-> lineno,
     label |-> title(raw.label), action |-> lower(raw.action)]

\* One turn of the loops of lines 88 and 90: the end of the files, the end
\* of one file, or one line.
ParseStep ==
    /\ pc = "parse"
    /\ LET fi == fpos[1]
           li == fpos[2]
       IN  IF fi > Len(files)
           THEN \* return lines
                /\ pc' = "parsed"
                /\ UNCHANGED <<lines, log, fpos, err, raised>>
           ELSE IF li > Len(files[fi])
           THEN /\ fpos' = <<fi + 1, 1>>
                /\ UNCHANGED <<pc, lines, log, err, raised>>
           ELSE LET raw == files[fi][li]
                    filename == FileNames[fi]
                    lineno == li - 1
                IN  IF ~raw.matches
                    THEN \* lines 92-94
                         /\ log' = Append(log, [kind |-> "no match", filename |-> filename,
                                                lineno |-> lineno])
                         /\ fpos' = <<fi, li + 1>>
                         /\ UNCHANGED <<pc, lines, err, raised>>
                    ELSE IF ~strptime(raw.datetime).ok
                    THEN \* line 98 raises ValueError(message) out of parse_files
                         /\ err' = "ValueError"
                         /\ raised' = [time_data |-> raw.datetime, format |-> "%Y-%m-%d %H.%M"]
                         /\ pc' = "error"
                         /\ UNCHANGED <<lines, log, fpos>>
                    ELSE /\ lines' = Append(lines, ParsedLine(raw, filename, lineno))
                         /\ fpos' = <<fi, li + 1>>
                         /\ UNCHANGED <<pc, log, err, raised>>
    /\ UNCHANGED <<auto_stop_on_start, discart_redundant_stops, groupVars, lab, i, next_stop,
                   timespans_by_label, clock, filterVars, passed, other, first, config, files>>

\* Two files of at most MaxRawLines lines each.
InitParse ==
    /\ pc = "parse"
    /\ lines = <<>>
    /\ auto_stop_on_start = TRUE
    /\ discart_redundant_stops = FALSE
    /\ idx = 1
    /\ lines_by_label = EmptyDict
    /\ label_order = <<>>
    /\ lab = 1
    /\ i = 1
    /\ next_stop = <<>>
    /\ timespans_by_label = EmptyDict
    /\ log = <<>>
    /\ clock = 0
    /\ err = "none"
    /\ args = EmptyDict
    /\ filtered = EmptyDict
    /\ passed = EmptyDict
    /\ other = <<>>
    /\ first = <<>>
    /\ config = DefaultFlags
    /\ \E m, n \in 0..MaxRawLines :
          \E f \in [1..m -> RawLines], g \in [1..n -> RawLines] : files = <<f, g>>
    /\ fpos = <<1, 1>>
    /\ raised = EmptyDict

NextParse == ParseStep

SpecParse == InitParse /\ [][NextParse]_vars

\* ======================================================== properties
\* Helpers of the properties: written from the statements, not from the code.
IsStart(e) == e.action = "start"
IsStop(e) == e.action = "stop"

\* A Start of the timeline that no later Stop of the timeline follows.
HasOpenStart(ls) ==
    \E j \in 1..Len(ls) : IsStart(ls[j]) /\ \A k \in (j + 1)..Len(ls) : ~IsStop(ls[k])
OpenLabels == {l \in DOMAIN lines_by_label : HasOpenStart(lines_by_label[l])}

\* The timeline of a label, empty while the label has none.
Timeline(d, l) == IF l \in DOMAIN d THEN d[l] ELSE <<>>

\* Positions of the Starts of a timeline, in order; the k-th timespan of a
\* label is built from the k-th Start of its timeline.
StartPositions(ls) == {j \in 1..Len(ls) : IsStart(ls[j])}
StartPos(ls, k) ==
    CHOOSE j \in StartPositions(ls) : Cardinality({m \in StartPositions(ls) : m <= j}) = k

\* s is the nearest Stop behind position p; n is the nearest Start behind p.
IsNearestStop(ls, p, s) ==
    s \in (p + 1)..Len(ls) /\ IsStop(ls[s]) /\ \A j \in (p + 1)..(s - 1) : ~IsStop(ls[j])
IsNearestStart(ls, p, n) ==
    n \in (p + 1)..Len(ls) /\ IsStart(ls[n]) /\ \A j \in (p + 1)..(n - 1) : ~IsStart(ls[j])
HasLaterStop(ls, p) == \E s \in (p + 1)..Len(ls) : IsStop(ls[s])

\* A warning of the given kind was reported for the Start at position p of label l.
Warned(kind, l, p) ==
    \E w \in 1..Len(log) : log[w].kind = kind /\ log[w].label = l /\ log[w].pos = p

\* C1: with auto_stop_on_start, after every processed event at most one
\* label's timeline holds a Start that no later Stop of that timeline follows,
\* whatever the action words of the events are.
C1_SingleOpen == auto_stop_on_start => Cardinality(OpenLabels) <= 1

\* C2: every timespan whose Start was paired with a Stop of the timeline
\* (input or synthetic) has stop >= start, for both settings of both flags.
C2_NonNegative ==
    \A l \in DOMAIN timespans_by_label : \A k \in 1..Len(timespans_by_label[l]) :
        HasLaterStop(lines_by_label[l], StartPos(lines_by_label[l], k))
            => /\ timespans_by_label[l][k].stop >= timespans_by_label[l][k].start
               /\ timespans_by_label[l][k].timespan >= 0

\* C2 witness: the run ended and some Start paired with a Stop gave a timespan
\* of positive length.
C2_Witness ==
    /\ pc = "done"
    /\ \E l \in DOMAIN timespans_by_label : \E k \in 1..Len(timespans_by_label[l]) :
          /\ HasLaterStop(lines_by_label[l], StartPos(lines_by_label[l], k))
          /\ timespans_by_label[l][k].timespan > 0

\* C3: with auto_stop_on_start, a Start event for label L appends a synthetic
\* Stop (timestamped as the Start) to exactly the timelines of the labels
\* other than L whose last event is a Start; L's own timeline receives
\* nothing but the Start itself.
C3_StepClaim ==
    (pc = "group" /\ pc' \in {"group", "find"} /\ auto_stop_on_start /\ IsStart(lines[idx]))
    => LET ev == lines[idx]
           L == ev.label
           old(k) == Timeline(lines_by_label, k)
           synth(k) == [action |-> "stop", label |-> k, datetime |-> ev.datetime,
                        synthetic |-> TRUE]
           own == [action |-> ev.action, label |-> L, datetime |-> ev.datetime,
                   synthetic |-> FALSE]
       IN  \A k \in DOMAIN lines_by_label' :
              lines_by_label'[k] =
                 IF k = L THEN Append(old(k), own)
                 ELSE IF old(k) # <<>> /\ IsStart(old(k)[Len(old(k))])
                      THEN Append(old(k), synth(k))
                      ELSE old(k)
C3_OwnTimelineUntouched == [][C3_StepClaim]_vars

\* C3 amended: with auto_stop_on_start, a Start event for label L appends a
\* synthetic Stop (timestamped as the Start) to exactly the timelines, L's
\* own included, whose last event is a Start; the Start itself is then
\* appended to L's timeline and no other timeline changes.
C3_StepAmended ==
    (pc = "group" /\ pc' \in {"group", "find"} /\ auto_stop_on_start /\ IsStart(lines[idx]))
    => LET ev == lines[idx]
           L == ev.label
           old(k) == Timeline(lines_by_label, k)
           synth(k) == [action |-> "stop", label |-> k, datetime |-> ev.datetime,
                        synthetic |-> TRUE]
           own == [action |-> ev.action, label |-> L, datetime |-> ev.datetime,
                   synthetic |-> FALSE]
           closed(k) == IF old(k) # <<>> /\ IsStart(old(k)[Len(old(k))])
                        THEN Append(old(k), synth(k)) ELSE old(k)
       IN  /\ DOMAIN lines_by_label' = DOMAIN lines_by_label \cup {L}
           /\ \A k \in DOMAIN lines_by_label' :
                 lines_by_label'[k] = IF k = L THEN Append(closed(k), own) ELSE closed(k)
C3_ClosesEveryOpenTimeline == [][C3_StepAmended]_vars

\* C3 witness: with auto_stop_on_start, the only label there is has in its
\* timeline a Start, a synthetic Stop and the Start that caused it.
C3_Witness ==
    /\ auto_stop_on_start
    /\ \E l \in DOMAIN lines_by_label :
          /\ DOMAIN lines_by_label = {l}
          /\ \E j \in 1..(Len(lines_by_label[l]) - 2) :
                LET ls == lines_by_label[l]
                IN  /\ IsStart(ls[j])
                    /\ IsStop(ls[j + 1]) /\ ls[j + 1].synthetic
                    /\ IsStart(ls[j + 2]) /\ ls[j + 2].datetime = ls[j + 1].datetime

\* C4: with discard_redundant_stops, a Stop for a label whose timeline is
\* empty or ends with a Stop is dropped, so that no timeline starts with a
\* Stop or holds two adjacent Stops.
C4_NoRedundantStop ==
    discart_redundant_stops =>
        \A l \in DOMAIN lines_by_label :
            LET ls == lines_by_label[l]
            IN  /\ (ls # <<>> => ~IsStop(ls[1]))
                /\ \A j \in 1..(Len(ls) - 1) : ~(IsStop(ls[j]) /\ IsStop(ls[j + 1]))

\* C5: every Start that no later Stop of its timeline follows (later Starts
\* of the label or not) gets a timespan whose stop is the current instant,
\* a warning is reported, and the run goes on without raising an error.
C5_OpenEndedRecovered ==
    /\ err = "none"
    /\ pc = "done" =>
          \A l \in DOMAIN lines_by_label :
             LET ls == lines_by_label[l]
             IN  \A p \in StartPositions(ls) :
                    ~HasLaterStop(ls, p) =>
                       /\ l \in DOMAIN timespans_by_label
                       /\ Cardinality({m \in StartPositions(ls) : m <= p})
                             <= Len(timespans_by_label[l])
                       /\ timespans_by_label[l][Cardinality({m \in StartPositions(ls) : m <= p})].stop
                             \in NowValues
                       /\ Warned("nostop", l, p)

\* C6: a Start at position p that a later Stop follows is paired with the
\* nearest Stop behind p, and an overlap warning is reported for it if and
\* only if a Start exists behind p and the nearest such Start is strictly
\* earlier than the matched Stop.
C6_NearestStopAndOverlap ==
    \A l \in DOMAIN timespans_by_label : \A k \in 1..Len(timespans_by_label[l]) :
        LET ls == lines_by_label[l]
            p == StartPos(ls, k)
        IN  \A s \in 1..Len(ls) :
               IsNearestStop(ls, p, s) =>
                  /\ timespans_by_label[l][k].stop = ls[s].datetime
                  /\ Warned("overlap", l, p) <=>
                        \E n \in 1..Len(ls) :
                           IsNearestStart(ls, p, n) /\ ls[n].datetime < ls[s].datetime

\* C6 witness: the run ended, and of two Starts paired with a Stop one was
\* reported as overlapping and one was not.
C6_Witness ==
    /\ pc = "done"
    /\ \E l \in DOMAIN timespans_by_label :
          LET ls == lines_by_label[l]
          IN  /\ \E p \in StartPositions(ls) : HasLaterStop(ls, p) /\ Warned("overlap", l, p)
              /\ \E p \in StartPositions(ls) : HasLaterStop(ls, p) /\ ~Warned("overlap", l, p)

\* C7: on timelines grouped with auto_stop_on_start no overlap is ever
\* reported, whatever the input events are.
C7_NoOverlapUnderAutoStop ==
    auto_stop_on_start => \A w \in 1..Len(log) : log[w].kind # "overlap"

\* The Starts whose nearest later Stop is the Stop at position s.
Group(ls, s) == {p \in StartPositions(ls) : IsNearestStop(ls, p, s)}

\* C8 as stated: of two or more Starts with no Stop between them and one
\* Stop behind them, each is paired with that Stop and each is reported as
\* overlapping.
C8_EachFlagged ==
    \A l \in DOMAIN timespans_by_label : \A k \in 1..Len(timespans_by_label[l]) :
        LET ls == lines_by_label[l]
            p == StartPos(ls, k)
        IN  \A s \in 1..Len(ls) :
               (p \in Group(ls, s) /\ Cardinality(Group(ls, s)) >= 2) =>
                  /\ timespans_by_label[l][k].stop = ls[s].datetime
                  /\ Warned("overlap", l, p)

\* C8 amended: each of those Starts is paired with that Stop; a Start of the
\* group other than the last is reported exactly when the Stop is strictly
\* later than the Start that follows it, and the last is not reported.
C8_GroupFlags ==
    \A l \in DOMAIN timespans_by_label : \A k \in 1..Len(timespans_by_label[l]) :
        LET ls == lines_by_label[l]
            p == StartPos(ls, k)
        IN  \A s \in 1..Len(ls) :
               (p \in Group(ls, s) /\ Cardinality(Group(ls, s)) >= 2) =>
                  /\ timespans_by_label[l][k].stop = ls[s].datetime
                  /\ Warned("overlap", l, p) <=>
                        \E q \in Group(ls, s) :
                           /\ q > p
                           /\ \A r \in Group(ls, s) : r > p => q <= r
                           /\ ls[s].datetime > ls[q].datetime

\* C8 witness: the run ended on a timeline where two Starts share one Stop,
\* the first reported and the last not.
C8_Witness ==
    /\ pc = "done"
    /\ \E l \in DOMAIN timespans_by_label :
          LET ls == lines_by_label[l]
          IN  \E s \in 1..Len(ls) : \E p, q \in Group(ls, s) :
                 p < q /\ Warned("overlap", l, p) /\ ~Warned("overlap", l, q)

\* What filtering by the start bounds is to return.
KeepsStart(t, a) ==
    /\ "start_after" \in DOMAIN a => t.start >= a["start_after"]
    /\ "start_before" \in DOMAIN a => t.start <= a["start_before"]
\* What filtering by all four bounds is to return.
KeepsAll(t, a) ==
    /\ KeepsStart(t, a)
    /\ "end_after" \in DOMAIN a => t.stop >= a["end_after"]
    /\ "end_before" \in DOMAIN a => t.stop <= a["end_before"]
OnlyStartBounds(a) == DOMAIN a # {} /\ DOMAIN a \subseteq {"start_after", "start_before"}

\* C9: with start_after and/or start_before given, filter_timespans keeps a
\* timespan if and only if start >= start_after and start <= start_before,
\* whichever are given; both bounds are inclusive.
C9_StartBounds ==
    OnlyStartBounds(args) =>
        /\ pc # "error"
        /\ pc = "done" =>
              filtered = [l \in DOMAIN timespans_by_label |->
                            SelectSeq(timespans_by_label[l], LAMBDA t : KeepsStart(t, args))]

\* C9 witness: filtered by start_after, a timespan starting before the bound
\* was removed and one starting at the bound was kept.
C9_Witness ==
    /\ pc = "done"
    /\ OnlyStartBounds(args)
    /\ "start_after" \in DOMAIN args
    /\ \E l \in DOMAIN timespans_by_label :
          /\ \E k \in 1..Len(timespans_by_label[l]) :
                timespans_by_label[l][k].start < args["start_after"]
          /\ \E k \in 1..Len(filtered[l]) : filtered[l][k].start = args["start_after"]
          /\ Len(filtered[l]) < Len(timespans_by_label[l])

\* C10: with any of the four bounds given, filter_timespans returns for every
\* label exactly the timespans that satisfy all given bounds, the end bounds
\* compared with the stop time; it completes whenever a timespan exists.
C10_AllBounds ==
    /\ pc # "error"
    /\ pc = "done" =>
          filtered = [l \in DOMAIN timespans_by_label |->
                        SelectSeq(timespans_by_label[l], LAMBDA t : KeepsAll(t, args))]

\* The labels a label filter with these two lists is to keep.
AllowedBy(labels, exclude_labels) ==
    {l \in Labels :
        /\ labels # <<>> => \E n \in 1..Len(labels) : title(labels[n]) = l
        /\ ~\E n \in 1..Len(exclude_labels) : title(exclude_labels[n]) = l}

\* C11: filter_labels leaves exactly the labels of its input mapping that
\* are in the title-cased allow-list, when that is not empty, and are not in
\* the title-cased deny-list; the timespan list of every label left is the
\* list it was.
C11_AllowThenDeny ==
    [][MainFilterLabels =>
         /\ DOMAIN timespans_by_label' =
               DOMAIN timespans_by_label \cap AllowedBy(args["labels"], args["exclude_labels"])
         /\ \A l \in DOMAIN timespans_by_label' :
               timespans_by_label'[l] = timespans_by_label[l]]_vars

\* C11 witness: both lists were given, and filter_labels took B out of a
\* mapping of A and B and left A.
C11_Witness ==
    /\ pc = "filter_timespans"
    /\ args["labels"] # <<>>
    /\ args["exclude_labels"] # <<>>
    /\ DOMAIN passed = {"A", "B"}
    /\ DOMAIN timespans_by_label = {"A"}

\* C12: filter_labels applied to its own result with the same lists leaves
\* the mapping as the first application left it.
C12_Idempotent ==
    [][FilterLabelsAgain => timespans_by_label' = timespans_by_label]_vars

\* C12 witness: filter_labels was applied a second time after the first
\* application had removed a label and kept one.
C12_Witness ==
    /\ pc = "relabelled"
    /\ DOMAIN timespans_by_label # {}
    /\ DOMAIN timespans_by_label # DOMAIN passed

\* C13: whenever filter_main returns with discart_empty_labels set, no label
\* of the returned mapping has an empty list; whenever it returns without
\* it, every label that passed the label lists and lost all its timespans to
\* the time criteria is in the returned mapping with an empty list.
C13_EmptyLabels ==
    pc = "returned" =>
        IF args["discart_empty_labels"]
        THEN \A l \in DOMAIN filtered : filtered[l] # <<>>
        ELSE \A l \in DOMAIN timespans_by_label :
                (\A k \in 1..Len(timespans_by_label[l]) :
                    ~KeepsAll(timespans_by_label[l][k], args))
                => l \in DOMAIN filtered /\ filtered[l] = <<>>

\* C13 witness: filter_main returned with discart_empty_labels set, a label
\* that passed the label lists lost all its timespans to the time criteria
\* and is not in the returned mapping, and another label is.
C13_Witness ==
    /\ pc = "returned"
    /\ args["discart_empty_labels"]
    /\ DOMAIN filtered # {}
    /\ \E l \in DOMAIN timespans_by_label : l \notin DOMAIN filtered

\* C13 witness of the other case: filter_main returned without
\* discart_empty_labels and a label is in the returned mapping with an empty
\* list.
C13_WitnessKept ==
    /\ pc = "returned"
    /\ ~args["discart_empty_labels"]
    /\ \E l \in DOMAIN filtered : filtered[l] = <<>> /\ timespans_by_label[l] # <<>>

\* C14 as stated: every filter step leaves the mapping it was given with the
\* labels and lists it had, and so does filter_main.
C14_Pure ==
    [][/\ MainFilterLabels => timespans_by_label' = timespans_by_label
       /\ MainFilterTimespans => timespans_by_label' = timespans_by_label
       /\ MainFilterEmpty => filtered' = filtered
       /\ pc' = "returned" => timespans_by_label' = passed]_vars

\* C14 amended: filter_timespans leaves the mapping it was given as it was;
\* filter_labels and filter_empty take labels out of the mapping they were
\* given and change no list of it; when filter_main returns, the mapping it
\* was given holds the labels the label lists keep, each with the list it
\* had.
C14_InPlace ==
    [][/\ MainFilterTimespans => timespans_by_label' = timespans_by_label
       /\ MainFilterLabels =>
             /\ DOMAIN timespans_by_label' \subseteq DOMAIN timespans_by_label
             /\ \A l \in DOMAIN timespans_by_label' :
                   timespans_by_label'[l] = timespans_by_label[l]
       /\ MainFilterEmpty =>
             /\ DOMAIN filtered' = {l \in DOMAIN filtered : filtered[l] # <<>>}
             /\ \A l \in DOMAIN filtered' : filtered'[l] = filtered[l]
       /\ pc' = "returned" =>
             /\ DOMAIN timespans_by_label' =
                   DOMAIN passed \cap AllowedBy(args["labels"], args["exclude_labels"])
             /\ \A l \in DOMAIN timespans_by_label' : timespans_by_label'[l] = passed[l]]_vars

\* C14 witness: filter_main returned, the mapping it was given has lost a
\* label, and the mapping it returned is another one.
C14_Witness ==
    /\ pc = "returned"
    /\ timespans_by_label # passed
    /\ filtered # timespans_by_label

\* Whether a list of lines never goes back in time and has the lines of one
\* file and one datetime by rising lineno.
InKeyOrder(ls) ==
    \A j, k \in 1..Len(ls) :
        j < k => /\ ls[j].datetime <= ls[k].datetime
                 /\ (ls[j].datetime = ls[k].datetime /\ ls[j].filename = ls[k].filename)
                       => ls[j].lineno < ls[k].lineno

\* C15: the list that sorting by sort_key leaves never goes back in time and
\* has the lines of one file and one datetime by rising lineno; sorting it
\* again leaves it as it is.
C15_SortIdempotent ==
    [][/\ SortLines => InKeyOrder(lines')
       /\ SortAgain => lines' = lines]_vars

\* C15 witness: lines given in another order than the sorted one were sorted
\* and sorted again, two of them of one file and one datetime.
C15_Witness ==
    /\ pc = "resorted"
    /\ first # <<>>
    /\ lines # other
    /\ \E j, k \in 1..Len(lines) :
          /\ j < k
          /\ lines[j].datetime = lines[k].datetime
          /\ lines[j].filename = lines[k].filename
          /\ \E m, n \in 1..Len(other) : m > n /\ other[m] = lines[j] /\ other[n] = lines[k]

\* C18: get_lines_by_label called with the same flags on the same lines, no
\* two of one filename and lineno, given in another order returns the same
\* timeline for every label, the stops it made included.
C18_OrderIndependent ==
    (pc = "find" /\ first # <<>>) => lines_by_label = first[1]

\* C18 witness: the second call has returned; its lines were given with a
\* later line of a file before an earlier one, and a timeline holds a stop
\* that the call made.
C18_Witness ==
    /\ pc = "find"
    /\ first # <<>>
    /\ \E j, k \in 1..Len(other) :
          j < k /\ other[j].filename = other[k].filename /\ other[j].lineno > other[k].lineno
    /\ \E l \in DOMAIN lines_by_label :
          \E k \in 1..Len(lines_by_label[l]) : lines_by_label[l][k].synthetic
    /\ DOMAIN lines_by_label = Labels

\* C16: in a run of main configured with auto_stop_on_start false no
\* timeline holds a stop that the grouping made, and in a run configured with
\* discart_redundant_stops true no timeline holds a stop that is its first
\* entry or follows a stop.
C16_ConfiguredFlags ==
    /\ ~config.auto_stop_on_start =>
          \A l \in DOMAIN lines_by_label :
             \A k \in 1..Len(lines_by_label[l]) : ~lines_by_label[l][k].synthetic
    /\ config.discart_redundant_stops =>
          \A l \in DOMAIN lines_by_label :
             \A k \in 1..Len(lines_by_label[l]) :
                IsStop(lines_by_label[l][k]) =>
                   k > 1 /\ ~IsStop(lines_by_label[l][k - 1])

\* The lines of the files before the one at position pos.
Before(pos) ==
    {<<fi, li>> \in (1..Len(files)) \X (1..MaxRawLines + 1) :
        /\ li <= Len(files[fi])
        /\ fi < pos[1] \/ (fi = pos[1] /\ li < pos[2])}
\* Whether a line of a file has the shape of an entry and a timestamp that
\* is not of the format YYYY-MM-DD HH.MM.
BadTimestamp(raw) == raw.matches /\ raw.datetime = "2015-06-08 18:52"

\* C17: parse_files passes over every line that has not the shape of an
\* entry and goes on: when it returns, no line had a bad timestamp and the
\* list holds one entry for each line of that shape; it ends with an error
\* at the first line of that shape whose timestamp is not of the format, and
\* the error names the file and the line.
C17_SkipsAndAborts ==
    /\ pc = "parsed" =>
          /\ \A fi \in 1..Len(files) : \A li \in 1..Len(files[fi]) :
                ~BadTimestamp(files[fi][li])
          /\ Len(lines) = Cardinality({q \in Before(fpos) : files[q[1]][q[2]].matches})
    /\ pc = "error" =>
          /\ BadTimestamp(files[fpos[1]][fpos[2]])
          /\ \A q \in Before(fpos) : ~BadTimestamp(files[q[1]][q[2]])
          /\ "filename" \in DOMAIN raised /\ raised["filename"] = FileNames[fpos[1]]
          /\ "lineno" \in DOMAIN raised /\ raised["lineno"] = fpos[2] - 1

\* The part of C17 that holds: the lines skipped and the run ended at the
\* first bad timestamp, whatever the error carries.
C17_SkipsAndEnds ==
    /\ pc = "parsed" =>
          /\ \A fi \in 1..Len(files) : \A li \in 1..Len(files[fi]) :
                ~BadTimestamp(files[fi][li])
          /\ Len(lines) = Cardinality({q \in Before(fpos) : files[q[1]][q[2]].matches})
    /\ pc = "error" =>
          /\ BadTimestamp(files[fpos[1]][fpos[2]])
          /\ \A q \in Before(fpos) : ~BadTimestamp(files[q[1]][q[2]])

\* The number of start lines of a label among the lines given.
StartsOf(ls, l) == Cardinality({k \in 1..Len(ls) : ls[k].label = l /\ IsStart(ls[k])})

\* C19: whenever find_timespans_by_label returns, with either setting of
\* the two flags, it holds for every label as many timespans as the lines
\* given have start lines of that label, and no key for a label without one.
C19_OneTimespanPerStart ==
    pc = "done" =>
        \A l \in Labels :
            IF StartsOf(lines, l) = 0 THEN l \notin DOMAIN timespans_by_label
            ELSE /\ l \in DOMAIN timespans_by_label
                 /\ Len(timespans_by_label[l]) = StartsOf(lines, l)

\* C19 witness: find_timespans_by_label returned two timespans for a label
\* whose timeline holds a stop that the grouping made, and none for the other
\* label, which has a timeline without a start.
C19_Witness ==
    /\ pc = "done"
    /\ \E l \in DOMAIN timespans_by_label :
          /\ Len(timespans_by_label[l]) = 2
          /\ \E k \in 1..Len(lines_by_label[l]) : lines_by_label[l][k].synthetic
    /\ \E l \in DOMAIN lines_by_label : l \notin DOMAIN timespans_by_label

\* The entries of a timeline that came from the lines given, and the lines
\* of a label among the first n lines, as the grouping leaves them.
FromInput(es) == SelectSeq(es, LAMBDA e : ~e.synthetic)
LinesOf(ls, n, l) == SelectSeq(SubSeq(ls, 1, n), LAMBDA e : e.label = l)

\* C20: in get_lines_by_label without discart_redundant_stops, the timeline
\* of every label without the stops the grouping made is the list of the
\* sorted lines of that label handled so far, each once and in sorted order,
\* and no timeline, those stops included, goes back in time.
C20_Conservation ==
    (~discart_redundant_stops /\ pc # "sort") =>
        \A l \in Labels :
            /\ FromInput(Timeline(lines_by_label, l)) = LinesOf(lines, idx - 1, l)
            /\ \A j, k \in 1..Len(Timeline(lines_by_label, l)) :
                  j < k => Timeline(lines_by_label, l)[j].datetime
                              <= Timeline(lines_by_label, l)[k].datetime

\* C20 witness: get_lines_by_label returned without discart_redundant_stops;
\* both labels have a timeline, one of them with a stop the grouping made
\* between two of its lines.
C20_Witness ==
    /\ pc = "find"
    /\ ~discart_redundant_stops
    /\ DOMAIN lines_by_label = Labels
    /\ \E l \in Labels : \E k \in 2..(Len(lines_by_label[l]) - 1) :
          lines_by_label[l][k].synthetic

\* C21: what find_timespans_by_label does for a label -- the timespans it
\* builds, the warnings it gives for each, whether it raises there -- is
\* what it does when it is given that label's timeline alone.
C21_LabelIsolation ==
    (first # <<>> /\ pc \in {"done", "error"}) => OutcomeFor(label_order[1]) = first[1]
====
